---- MODULE Spec2Model ----
(***************************************************************************)
(* Model of desk-control: the desk connection and movement protocol        *)
(* (src/desk/bluetooth.rs, src/desk/protocol.rs) and the application state *)
(* that shares one desk session between spawned tasks (src/main.rs).       *)
(*                                                                         *)
(* Each task runs one operation at a time; every await of the source is a  *)
(* step boundary.  The transport (btleplug) is the environment: every      *)
(* transport call answers Ok, answers Err, or never answers.               *)
(***************************************************************************)
EXTENDS Integers, Sequences, FiniteSets, TLC

\* ------------------------------------------------------------------ bounds
\* Longest payload handed to parse_height.
MaxPayloadLen == 3
\* Calls the owner of a session makes on it before dropping it.
MaxCalls == 2
\* Number of concurrently spawned tasks.
NumTasks == 2
\* Longest list of devices one scan observes.
MaxObserved == 2
\* Poll iterations of move_to_height that are explored.
MaxPolls == 6
\* Poll iterations allowed where the loop is left to run into its timeout.
PollsToTimeout == 160
\* A slow height read, in milliseconds (a fast one takes 0 ms).
SlowReadMs == 15100

\* ------------------------------------------------------- program constants
max_retries == 3
TOLERANCE_MM == 5
MAX_WAIT_SECS == 30
POLL_INTERVAL_MS == 200
\* poll_count above which a failed read aborts the move
READ_FAIL_POLLS == 5
U16 == 65536

Tasks == 1..NumTasks

\* Option<T> is a sequence of length 0 (None) or 1 (Some(x)).
None == <<>>
Some(x) == <<x>>
IsSome(o) == Len(o) = 1
Unwrap(o) == o[1]

Range(s) == {s[i] : i \in 1..Len(s)}

\* --------------------------------------------------------- protocol codec
\* MovementCommand: [cmd |-> "Stop" | "Up" | "Down" | "MoveToHeight", height |-> u16]
\* (to_bytes_big_endian: the height's bytes in the other order.)
to_bytes_big_endian(command) ==
    CASE command.cmd = "Stop" -> <<255, 0>>
      [] command.cmd = "Up" -> <<71, 0>>
      [] command.cmd = "Down" -> <<70, 0>>
      [] command.cmd = "MoveToHeight" ->
            <<5, command.height \div 256, command.height % 256>>

to_bytes(command) ==
    CASE command.cmd = "Stop" -> <<255, 0>>
      [] command.cmd = "Up" -> <<71, 0>>
      [] command.cmd = "Down" -> <<70, 0>>
      [] command.cmd = "MoveToHeight" ->
            <<5, command.height % 256, command.height \div 256>>

\* parse_height reading the two bytes in the other order
parse_height_big_endian(data) ==
    IF Len(data) >= 2 THEN Some(256 * data[1] + data[2]) ELSE None

parse_height(data) ==
    IF Len(data) >= 2 THEN Some(data[1] + 256 * data[2]) ELSE None

\* u16 multiplication: a build with overflow checks panics, one without wraps.
mm_to_desk_units(mm, overflow_checks) ==
    IF mm * 10 >= U16 /\ overflow_checks
    THEN [panic |-> TRUE, units |-> 0]
    ELSE [panic |-> FALSE, units |-> (mm * 10) % U16]

\* desk_units_to_mm dividing down to centimetres
desk_units_to_mm_as_cm(units) == units \div 100

desk_units_to_mm(units) == units \div 10

\* little-endian payload of a u16, as the desk sends it
le_bytes(units) == <<units % 256, units \div 256>>

\* ------------------------------------------------------------- devices
\* Devices the adapter can observe; a device's address string is its name here.
Devices == {"D1", "D2", "D3", "D4", "D5"}

\* properties.local_name of each device (None: no advertised name)
local_name(d) ==
    CASE d = "D1" -> Some(<<"D", "e", "s", "k", " ", "1">>)
      [] d = "D2" -> Some(<<"L", "I", "N", "A", "K">>)
      [] d = "D3" -> Some(<<"C", "h", "a", "i", "r">>)
      [] d = "D4" -> None
      [] d = "D5" -> Some(<<"m", "y", "D", "P", "G">>)

to_lowercase_char(c) ==
    CASE c = "D" -> "d" [] c = "L" -> "l" [] c = "I" -> "i" [] c = "N" -> "n"
      [] c = "A" -> "a" [] c = "K" -> "k" [] c = "C" -> "c" [] c = "P" -> "p"
      [] c = "G" -> "g" [] c = "E" -> "e" [] c = "S" -> "s"
      [] OTHER -> c

to_lowercase(name) == [i \in 1..Len(name) |-> to_lowercase_char(name[i])]

contains(hay, needle) ==
    \E i \in 1..(Len(hay) - Len(needle) + 1) :
        SubSeq(hay, i, i + Len(needle) - 1) = needle

\* the keyword test without to_lowercase
is_desk_name_case_sensitive(name) ==
    \/ contains(name, <<"d", "e", "s", "k">>)
    \/ contains(name, <<"d", "p", "g">>)
    \/ contains(name, <<"l", "i", "n", "a", "k">>)

is_desk_name(name) ==
    \/ contains(to_lowercase(name), <<"d", "e", "s", "k">>)
    \/ contains(to_lowercase(name), <<"d", "p", "g">>)
    \/ contains(to_lowercase(name), <<"l", "i", "n", "a", "k">>)

\* The filter loop of scan_for_desks: `readable` are the peripherals whose
\* properties() answered Ok(Some(_)).
RECURSIVE filter_desks(_, _)
filter_desks(peripherals, readable) ==
    IF peripherals = <<>> THEN <<>>
    ELSE LET p == Head(peripherals)
             rest == filter_desks(Tail(peripherals), readable)
         IN IF /\ p \in readable
               /\ IsSome(local_name(p))
               /\ is_desk_name(Unwrap(local_name(p)))
            THEN <<p>> \o rest
            ELSE rest

\* Lists of distinct devices one scan can observe, in discovery order.
RECURSIVE distinct_seqs(_, _)
distinct_seqs(devices, n) ==
    IF n = 0 THEN {<<>>}
    ELSE LET shorter == distinct_seqs(devices, n - 1)
         IN shorter \cup {Append(s, d) : s \in shorter, d \in devices}

ObservedChoices(devices) ==
    {s \in distinct_seqs(devices, MaxObserved) : Cardinality(Range(s)) = Len(s)}

\* The search with a fallback to the first candidate when none matches.
find_peripheral_or_first(desks, addr, readable) ==
    IF desks = <<>> THEN None
    ELSE IF \E i \in 1..Len(desks) : desks[i] \in readable /\ desks[i] = addr
    THEN Some(addr)
    ELSE Some(Head(desks))

\* The search taking a candidate whose properties could not be read.
find_peripheral_unread(desks, addr, readable) ==
    IF \E i \in 1..Len(desks) : desks[i] = addr THEN Some(addr) ELSE None

\* The search loop of connect for Some(addr): first candidate, in order, whose
\* properties are readable and whose address equals addr.
RECURSIVE find_peripheral(_, _, _)
find_peripheral(desks, addr, readable) ==
    IF desks = <<>> THEN None
    ELSE IF Head(desks) \in readable /\ Head(desks) = addr
         THEN Some(Head(desks))
         ELSE find_peripheral(Tail(desks), addr, readable)

\* ------------------------------------------------------------ transport
\* A transport call answers Ok, answers Err, or never answers.
Answers == {"ok", "err", "never"}

\* tokio::time::timeout(d, fut): a call that never answers ends in a timeout.
with_timeout(answer) == IF answer = "never" THEN "timeout" ELSE answer

\* ------------------------------------------------------------- results
Ok == [ok |-> TRUE, kind |-> "ok", attempt |-> 0]
Err(kind, attempt) == [ok |-> FALSE, kind |-> kind, attempt |-> attempt]
Pending == [ok |-> FALSE, kind |-> "pending", attempt |-> 0]

\* ---------------------------------------------------------------- state
VARIABLES
    linked,       \* [Devices -> BOOLEAN]: the transport's link to each peripheral
    scanning,     \* the adapter is scanning
    config,       \* Config: [desk_address, presets]
    slot,         \* AppState.desk_controller: Option<DeskController>
    slotLock,     \* holder of the desk_controller mutex: Option<task>
    configLock,   \* holder of the config mutex: Option<task>
    pc,           \* each task's position
    op,           \* each task's top-level operation
    cl,           \* locals of DeskController::connect / scan_for_desks
    ml,           \* locals of DeskController::move_to_height / get_height
    ret,          \* result of each task's top-level operation
    trace,        \* the calls' histories (attempt outcomes, readings) are recorded
    in_range,     \* the devices in radio range of the adapter
    sl,           \* the calls a session's owner made on it, with their outcomes
    call          \* one application of a protocol function: input and output

vars == <<linked, scanning, config, slot, slotLock, configLock, pc, op, cl, ml, ret, trace, in_range, sl, call>>

DrinkSizes == {"Short", "Tall", "Grande", "Venti"}

\* Config::default presets (millimetres)
DefaultPresets == [Short |-> 650, Tall |-> 850, Grande |-> 1050, Venti |-> 1250]

\* a config file whose Venti preset was edited to a height above 6553 mm
EditedPresets == [DefaultPresets EXCEPT !.Venti = 6554]

get_preset(cfg, preset) == cfg.presets[preset]

\* DeskController { peripheral, control_char, height_char }
DeskController(peripheral, control_char, height_char) ==
    [peripheral |-> peripheral, control_char |-> control_char,
     height_char |-> height_char]

ConnectLocals0 ==
    [in_connect |-> FALSE, desk_address |-> None, desks |-> <<>>,
     peripheral |-> None, attempt |-> 0, last_error |-> None,
     history |-> <<>>, scans |-> 0, observed |-> <<>>, readable |-> {},
     requests |-> <<>>, selection |-> None,
     controller |-> None, result |-> Pending]

MoveLocals0 ==
    [preset |-> "", height_mm |-> 0, elapsed |-> 0, poll_count |-> 0, writes |-> <<>>,
     reads |-> 0, consec_fail |-> 0, any_failed |-> FALSE,
     last_within |-> FALSE,
     earlier_within |-> FALSE, late_read |-> FALSE, last_reading |-> None,
     result |-> Pending]

\* No protocol function is being applied.
NoCall == [fn |-> "none", arg |-> <<>>, out |-> <<>>, done |-> FALSE]

\* An await that never completes: the task never runs again.  Of its locals
\* only what it owns (a controller it was handed) still matters.
block_in_connect(t) ==
    /\ pc' = [pc EXCEPT ![t] = "blocked"]
    /\ cl' = [cl EXCEPT ![t] = ConnectLocals0]

block_in_move(t) ==
    /\ pc' = [pc EXCEPT ![t] = "blocked"]
    /\ ml' = [ml EXCEPT ![t] = MoveLocals0]

\* ------------------------------------------------- scan_for_desks (22-58)
\* Manager::new, adapters, first adapter, start_scan.  None of these calls is
\* wrapped in a timeout.
scan_start(t) ==
    /\ pc[t] = "scan_start"
    /\ \E adapter \in {"ok", "err", "none", "never"} :
         IF adapter = "never"
         THEN /\ block_in_connect(t)
              /\ UNCHANGED scanning
         ELSE IF adapter # "ok"
         THEN /\ pc' = [pc EXCEPT ![t] = "scan_ret"]
              /\ cl' = [cl EXCEPT ![t].result = Err("adapter", 0)]
              /\ UNCHANGED scanning
         ELSE \E start \in Answers :
              IF start = "never"
              THEN /\ block_in_connect(t)
                   /\ UNCHANGED scanning
              ELSE IF start = "err"
              THEN /\ pc' = [pc EXCEPT ![t] = "scan_ret"]
                   /\ cl' = [cl EXCEPT ![t].result = Err("start_scan", 0),
                                       ![t].scans = IF trace THEN @ + 1 ELSE @]
                   /\ UNCHANGED scanning
              ELSE /\ scanning' = TRUE
                   /\ pc' = [pc EXCEPT ![t] = "scan_collect"]
                   /\ cl' = [cl EXCEPT ![t].scans = IF trace THEN @ + 1 ELSE @]
    /\ UNCHANGED <<linked, config, slot, slotLock, configLock, op, ml, ret, trace, in_range, sl, call>>

\* After the sleep: peripherals(), the filter loop, stop_scan.
scan_collect(t) ==
    /\ pc[t] = "scan_collect"
    /\ \E collect \in Answers :
         IF collect = "never"
         THEN /\ block_in_connect(t)
              /\ UNCHANGED scanning
         ELSE IF collect = "err"
         THEN /\ pc' = [pc EXCEPT ![t] = "scan_ret"]
              /\ cl' = [cl EXCEPT ![t].result = Err("peripherals", 0)]
              /\ UNCHANGED scanning
         ELSE \E stop \in Answers :
              IF stop = "never"
              THEN /\ block_in_connect(t)
                   /\ UNCHANGED scanning
              ELSE IF stop = "err"
              THEN /\ pc' = [pc EXCEPT ![t] = "scan_ret"]
                   /\ cl' = [cl EXCEPT ![t].result = Err("stop_scan", 0)]
                   /\ UNCHANGED scanning
              ELSE \E observed \in ObservedChoices(in_range) :
                   \E readable \in SUBSET Range(observed) :
                     /\ scanning' = FALSE
                     /\ pc' = [pc EXCEPT ![t] = "scan_ret"]
                     /\ cl' = [cl EXCEPT
                            ![t].result = Ok,
                            ![t].desks = filter_desks(observed, readable),
                            ![t].observed = IF trace THEN observed ELSE @,
                            ![t].readable = IF trace THEN readable ELSE @]
    /\ UNCHANGED <<linked, config, slot, slotLock, configLock, op, ml, ret, trace, in_range, sl, call>>

\* ---------------------------------------- DeskController::connect (61-155)
\* A transport request of connect as recorded: which call, how it ended and
\* whether the peripheral was linked afterwards.
Request(req, answer, linked_after) ==
    [req |-> req, answer |-> answer, linked |-> linked_after]

recorded(requests, request) ==
    IF trace THEN Append(requests, request) ELSE requests

\* connect returns to its caller: the controller (if any) and the result.
\* Its locals end with the call; the recorded history stays.
connect_return(t, result, controller, history, requests) ==
    /\ pc' = [pc EXCEPT ![t] = "connect_ret"]
    /\ cl' = [cl EXCEPT ![t] = [ConnectLocals0 EXCEPT !.result = result,
                                                      !.controller = controller,
                                                      !.history = history,
                                                      !.scans = cl[t].scans,
                                                      !.requests = requests]]

\* The selection as recorded: the identifier, the candidates in discovery
\* order, those whose properties could be read and the candidate selected.
Selection(desk_address, desks, readable, selected) ==
    IF trace
    THEN Some([desk_address |-> desk_address, desks |-> desks,
               readable |-> readable, selected |-> selected])
    ELSE None

\* Lines 66-112: the scan's result, the empty check, the selection.
connect_select(t) ==
    /\ pc[t] = "scan_ret"
    /\ cl[t].in_connect
    /\ LET c == cl[t] IN
       IF ~c.result.ok
       THEN connect_return(t, c.result, None, c.history, c.requests)
       ELSE IF c.desks = <<>>
       THEN connect_return(t, Err("no_desks", 0), None, c.history, c.requests)
       ELSE \E readable \in SUBSET Range(c.desks) :
              LET peripheral ==
                      IF IsSome(c.desk_address)
                      THEN find_peripheral(c.desks, Unwrap(c.desk_address), readable)
                      ELSE Some(Head(c.desks))
                 selection == Selection(c.desk_address, c.desks, readable, peripheral)
              IN IF peripheral = None
                 THEN /\ pc' = [pc EXCEPT ![t] = "connect_ret"]
                      /\ cl' = [cl EXCEPT ![t] =
                                  [ConnectLocals0 EXCEPT !.result = Err("not_found", 0),
                                                         !.history = c.history,
                                                         !.scans = c.scans,
                                                         !.requests = c.requests,
                                                         !.selection = selection]]
                 ELSE /\ pc' = [pc EXCEPT ![t] = "connect_settle"]
                      /\ cl' = [cl EXCEPT ![t].peripheral = peripheral,
                                          ![t].selection = selection,
                                          ![t].desks = <<>>,
                                          ![t].observed = <<>>,
                                          ![t].readable = {},
                                          ![t].attempt = 1,
                                          ![t].result = Pending]
    /\ UNCHANGED <<linked, scanning, config, slot, slotLock, configLock, op, ml, ret, trace, in_range, sl, call>>

\* Lines 113-122: the pause after the scan, then the first attempt begins.
\* Of the selection only the peripheral is kept.
connect_settle(t) ==
    /\ pc[t] = "connect_settle"
    /\ pc' = [pc EXCEPT ![t] = "ctp_status"]
    /\ cl' = [cl EXCEPT ![t].selection = None]
    /\ UNCHANGED <<linked, scanning, config, slot, slotLock, configLock, op, ml, ret, trace, in_range, sl, call>>

\* Line 146: last_error = Some(e)
next_last_error_keep_first(last_error, e) ==
    IF IsSome(last_error) THEN last_error ELSE Some(e)

next_last_error(last_error, e) == Some(e)

\* connect_to_peripheral returned Err(e): the Err arm of the retry loop
\* (136-150) begins.  last_error is local and read only after the loop, so
\* its assignment (146) is taken here, with the error in hand.
attempt_failed(t, kind, request) ==
    /\ pc' = [pc EXCEPT ![t] = "retry_status"]
    /\ cl' = [cl EXCEPT
                ![t].last_error = next_last_error(@, Err(kind, cl[t].attempt)),
                ![t].history = IF trace THEN Append(@, kind) ELSE @,
                ![t].requests = recorded(@, request)]

\* connect_to_peripheral requesting the link whatever is_connected reported
ctp_status_always_links(t) ==
    /\ pc[t] = "ctp_status"
    /\ LET p == Unwrap(cl[t].peripheral) IN
       \E answer \in Answers :
         LET request == Request("status", with_timeout(answer), linked[p]) IN
         IF with_timeout(answer) = "ok"
         THEN /\ pc' = [pc EXCEPT ![t] = "ctp_link"]
              /\ cl' = [cl EXCEPT ![t].requests = recorded(@, request)]
         ELSE attempt_failed(t, "status", request)
    /\ UNCHANGED <<linked, scanning, config, slot, slotLock, configLock, op, ml, ret, trace, in_range, sl, call>>

\* Lines 165-172: is_connected under a 5 s timeout.
ctp_status(t) ==
    /\ pc[t] = "ctp_status"
    /\ LET p == Unwrap(cl[t].peripheral) IN
       \E answer \in Answers :
         LET request == Request("status", with_timeout(answer), linked[p]) IN
         IF with_timeout(answer) = "ok"
         THEN /\ pc' = [pc EXCEPT ![t] =
                         IF linked[p] THEN "ctp_discover" ELSE "ctp_link"]
              /\ cl' = [cl EXCEPT ![t].requests = recorded(@, request)]
         ELSE attempt_failed(t, "status", request)
    /\ UNCHANGED <<linked, scanning, config, slot, slotLock, configLock, op, ml, ret, trace, in_range, sl, call>>

\* Lines 172-186: peripheral.connect() under a 15 s timeout.  A request that
\* timed out may or may not have brought the link up.
ctp_link(t) ==
    /\ pc[t] = "ctp_link"
    /\ LET p == Unwrap(cl[t].peripheral) IN
       \E answer \in Answers :
         LET r == with_timeout(answer) IN
         IF r = "ok"
         THEN /\ linked' = [linked EXCEPT ![p] = TRUE]
              /\ pc' = [pc EXCEPT ![t] = "ctp_discover"]
              /\ cl' = [cl EXCEPT ![t].requests =
                                      recorded(@, Request("link", r, TRUE))]
         ELSE \E up \in {FALSE, r = "timeout"} :
                /\ linked' = [linked EXCEPT ![p] = @ \/ up]
                /\ attempt_failed(t, "link",
                                  Request("link", r, linked[p] \/ up))
    /\ UNCHANGED <<scanning, config, slot, slotLock, configLock, op, ml, ret, trace, in_range, sl, call>>

\* Lines 199-231: the two endpoints are looked up among the characteristics;
\* a missing one is an error, otherwise the controller is built.
resolve_endpoints_no_height_check(peripheral, chars) ==
    LET control_char == IF "control" \in chars THEN Some("control") ELSE None
        height_char == IF "height" \in chars THEN Some("height") ELSE None
    IN IF control_char = None
       THEN [ok |-> FALSE, kind |-> "no_control", controller |-> None]
       ELSE [ok |-> TRUE, kind |-> "ok",
             controller |-> Some(DeskController(peripheral, control_char, height_char))]

resolve_endpoints(peripheral, chars) ==
    LET control_char == IF "control" \in chars THEN Some("control") ELSE None
        height_char == IF "height" \in chars THEN Some("height") ELSE None
    IN IF control_char = None
       THEN [ok |-> FALSE, kind |-> "no_control", controller |-> None]
       ELSE IF height_char = None
       THEN [ok |-> FALSE, kind |-> "no_height", controller |-> None]
       ELSE [ok |-> TRUE, kind |-> "ok",
             controller |-> Some(DeskController(peripheral, control_char, height_char))]

\* Lines 193-231: discover_services under a 10 s timeout, then the endpoints.
ctp_discover(t) ==
    /\ pc[t] = "ctp_discover"
    /\ LET p == Unwrap(cl[t].peripheral) IN
       \E answer \in Answers :
         LET request == Request("discover", with_timeout(answer), linked[p]) IN
         IF with_timeout(answer) # "ok"
         THEN attempt_failed(t, "discover", request)
         ELSE \E chars \in SUBSET {"control", "height"} :
              LET r == resolve_endpoints(p, chars) IN
              IF r.ok
              THEN connect_return(t, Ok, r.controller,
                                  IF trace THEN Append(cl[t].history, "ok")
                                  ELSE cl[t].history,
                                  recorded(cl[t].requests, request))
              ELSE attempt_failed(t, r.kind, request)
    /\ UNCHANGED <<linked, scanning, config, slot, slotLock, configLock, op, ml, ret, trace, in_range, sl, call>>

\* The retry loop with the scan inside it: a retry starts over at the scan.
end_of_attempt_rescan(t, request) ==
    /\ pc' = [pc EXCEPT ![t] = "scan_start"]
    /\ cl' = [cl EXCEPT ![t].attempt = @ + 1,
                        ![t].requests = recorded(@, request)]

\* Line 122: for attempt in 1..=max_retries
has_next_attempt_one_more(attempt) == attempt <= max_retries

has_next_attempt(attempt) == attempt < max_retries

\* Lines 122-127, 147-154: the end of the Err arm: the loop starts the next
\* attempt (after a 2 s sleep) or ends with the last error.
end_of_attempt(t, request) ==
    IF has_next_attempt(cl[t].attempt)
    THEN /\ pc' = [pc EXCEPT ![t] = "ctp_status"]
         /\ cl' = [cl EXCEPT ![t].attempt = @ + 1,
                             ![t].requests = recorded(@, request)]
    ELSE connect_return(t, Unwrap(cl[t].last_error), None, cl[t].history,
                        recorded(cl[t].requests, request))

\* The Err arm with the release left out after the last attempt.
connect_retry_status_except_last(t) ==
    /\ pc[t] = "retry_status"
    /\ LET p == Unwrap(cl[t].peripheral) IN
       \E answer \in Answers :
         LET request == Request("retry_status", answer, linked[p]) IN
         IF answer = "never"
         THEN block_in_connect(t)
         ELSE IF answer = "ok" /\ linked[p] /\ has_next_attempt(cl[t].attempt)
         THEN /\ pc' = [pc EXCEPT ![t] = "retry_release"]
              /\ cl' = [cl EXCEPT ![t].requests = recorded(@, request)]
         ELSE end_of_attempt(t, request)
    /\ UNCHANGED <<linked, scanning, config, slot, slotLock, configLock, op, ml, ret, trace, in_range, sl, call>>

\* Line 140: peripheral.is_connected() with no timeout; only Ok(true) leads
\* to the release.
connect_retry_status(t) ==
    /\ pc[t] = "retry_status"
    /\ LET p == Unwrap(cl[t].peripheral) IN
       \E answer \in Answers :
         LET request == Request("retry_status", answer, linked[p]) IN
         IF answer = "never"
         THEN block_in_connect(t)
         ELSE IF answer = "ok" /\ linked[p]
         THEN /\ pc' = [pc EXCEPT ![t] = "retry_release"]
              /\ cl' = [cl EXCEPT ![t].requests = recorded(@, request)]
         ELSE end_of_attempt(t, request)
    /\ UNCHANGED <<linked, scanning, config, slot, slotLock, configLock, op, ml, ret, trace, in_range, sl, call>>

\* Lines 142-143: peripheral.disconnect() with no timeout, its result dropped.
connect_retry_release(t) ==
    /\ pc[t] = "retry_release"
    /\ LET p == Unwrap(cl[t].peripheral) IN
       \E answer \in Answers :
         IF answer = "never"
         THEN /\ block_in_connect(t)
              /\ UNCHANGED linked
         ELSE /\ linked' = [linked EXCEPT ![p] =
                               IF answer = "ok" THEN FALSE ELSE @]
              /\ end_of_attempt(t, Request("release", answer,
                                           answer # "ok" /\ linked[p]))
    /\ UNCHANGED <<scanning, config, slot, slotLock, configLock, op, ml, ret, trace, in_range, sl, call>>

\* ------------------------------------------ disconnect (349-355), Drop (358-363)
\* What a call on a session comes to: whether it returns, its result, the
\* links afterwards and the release requests it issued.
Outcome(returns, result, links, releases) ==
    [returns |-> returns, result |-> result, linked |-> links,
     releases |-> releases]

\* disconnect with the is_connected test left out: the release is always
\* requested.
disconnect_unconditional(self, links, status, release) ==
    IF release = "never"
    THEN Outcome(FALSE, Pending, links, 1)
    ELSE IF release = "err"
    THEN Outcome(TRUE, Err("release", 0), links, 1)
    ELSE Outcome(TRUE, Ok, [links EXCEPT ![self.peripheral] = FALSE], 1)

\* disconnect: `if self.peripheral.is_connected().await? {
\* self.peripheral.disconnect().await?; } Ok(())`, neither call under a
\* timeout.  `status` and `release` are the transport's answers to the two
\* calls, `links` the links when the call starts.
disconnect(self, links, status, release) ==
    IF status = "never"
    THEN Outcome(FALSE, Pending, links, 0)
    ELSE IF status = "err"
    THEN Outcome(TRUE, Err("status", 0), links, 0)
    ELSE IF ~links[self.peripheral]
    THEN Outcome(TRUE, Ok, links, 0)
    ELSE IF release = "never"
    THEN Outcome(FALSE, Pending, links, 1)
    ELSE IF release = "err"
    THEN Outcome(TRUE, Err("release", 0), links, 1)
    ELSE Outcome(TRUE, Ok, [links EXCEPT ![self.peripheral] = FALSE], 1)

\* Drop: `let _ = futures::executor::block_on(self.disconnect());` the
\* result of disconnect is discarded; the drop ends when disconnect returns.
drop(self, links, status, release) ==
    LET r == disconnect(self, links, status, release)
    IN Outcome(r.returns, Ok, r.linked, r.releases)

\* ------------------------------------------ get_height (234-253)
\* One read of the height endpoint (no timeout), parse, unit conversion.
\* `answer` is the transport's answer ("ok" or "err"), `data` its payload.
\* (get_height_rounded: the same with the reading rounded to the nearest mm.)
get_height_rounded(self, answer, data) ==
    IF self.height_char = None
    THEN [ok |-> FALSE, kind |-> "endpoint", mm |-> 0, reads |-> 0, writes |-> 0]
    ELSE IF answer = "err"
    THEN [ok |-> FALSE, kind |-> "read", mm |-> 0, reads |-> 1, writes |-> 0]
    ELSE LET height_units == parse_height(data) IN
         IF height_units = None
         THEN [ok |-> FALSE, kind |-> "parse", mm |-> 0, reads |-> 1, writes |-> 0]
         ELSE [ok |-> TRUE, kind |-> "ok",
               mm |-> (Unwrap(height_units) + 5) \div 10,
               reads |-> 1, writes |-> 0]

get_height(self, answer, data) ==
    IF self.height_char = None
    THEN [ok |-> FALSE, kind |-> "endpoint", mm |-> 0, reads |-> 0, writes |-> 0]
    ELSE IF answer = "err"
    THEN [ok |-> FALSE, kind |-> "read", mm |-> 0, reads |-> 1, writes |-> 0]
    ELSE LET height_units == parse_height(data) IN
         IF height_units = None
         THEN [ok |-> FALSE, kind |-> "parse", mm |-> 0, reads |-> 1, writes |-> 0]
         ELSE [ok |-> TRUE, kind |-> "ok",
               mm |-> desk_units_to_mm(Unwrap(height_units)),
               reads |-> 1, writes |-> 0]

\* Payloads the height endpoint may return while a move to target_mm runs:
\* readings around the target, one far from it, one with a trailing byte, and
\* one too short to parse.
ReadingUnits(target_mm) ==
    {u \in {10 * target_mm - 4000, 10 * target_mm - 60, 10 * target_mm - 51,
            10 * target_mm - 50, 10 * target_mm, 10 * target_mm + 59,
            10 * target_mm + 60, U16 - 1} : u >= 0 /\ u < U16}

Payloads(target_mm) ==
    {le_bytes(u) : u \in ReadingUnits(target_mm)}
        \cup {Append(le_bytes(u), 7) : u \in ReadingUnits(target_mm)}
        \cup {<<4>>}

\* What the claims call "within 5 mm": the payload parses and its reading,
\* in whole millimetres, differs from the target by at most 5.
WithinFiveMm(data, target_mm) ==
    /\ Len(data) >= 2
    /\ LET mm == (data[1] + 256 * data[2]) \div 10
       IN mm - target_mm <= 5 /\ target_mm - mm <= 5

\* Lines 309-320: diff <= TOLERANCE_MM
converged_wider(current, height_mm) ==
    LET diff == IF current > height_mm THEN current - height_mm
                ELSE height_mm - current
    IN diff <= TOLERANCE_MM + 1

\* diff < TOLERANCE_MM
converged_below_tolerance(current, height_mm) ==
    LET diff == IF current > height_mm THEN current - height_mm
                ELSE height_mm - current
    IN diff < TOLERANCE_MM

converged(current, height_mm) ==
    LET diff == IF current > height_mm THEN current - height_mm
                ELSE height_mm - current
    IN diff <= TOLERANCE_MM

\* Line 302: start.elapsed().as_secs() > MAX_WAIT_SECS, elapsed in ms
timed_out(elapsed_ms) == (elapsed_ms \div 1000) > MAX_WAIT_SECS

\* A read failure aborting one poll later
read_failure_is_fatal_a_poll_later(poll_count) == poll_count > READ_FAIL_POLLS + 1

\* Line 329: poll_count > 5
read_failure_is_fatal(poll_count) == poll_count > READ_FAIL_POLLS

\* ---------------------------------------- move_to_height (276-340)
\* move_to_height returns; its locals end with the call unless recorded.
move_return(t, result, m) ==
    /\ pc' = [pc EXCEPT ![t] = "move_ret"]
    /\ ml' = [ml EXCEPT ![t] = IF trace THEN [m EXCEPT !.result = result]
                               ELSE [MoveLocals0 EXCEPT !.result = result]]

\* Lines 277-297: mm_to_desk_units, send_command(MoveToHeight) (one write with
\* no timeout), the 100 ms settle sleep, start = now.  A panic unwinds the
\* task and drops the guard it holds.
move_write(t) ==
    /\ pc[t] = "m_write"
    /\ LET self == Unwrap(slot)
           m == ml[t]
       IN \E overflow_checks \in BOOLEAN, answer \in Answers :
          LET height_units == mm_to_desk_units(m.height_mm, overflow_checks)
              bytes == to_bytes([cmd |-> "MoveToHeight",
                                 height |-> height_units.units])
          IN IF height_units.panic
             THEN /\ pc' = [pc EXCEPT ![t] = "panicked"]
                  /\ slotLock' = IF slotLock = Some(t) THEN None ELSE slotLock
                  /\ UNCHANGED ml
             ELSE IF self.control_char = None
             THEN /\ move_return(t, Err("endpoint", 0), m)
                  /\ UNCHANGED slotLock
             ELSE IF answer = "never"
             THEN /\ block_in_move(t)
                  /\ UNCHANGED slotLock
             ELSE IF answer = "err"
             THEN /\ move_return(t, Err("write", 0),
                                 [m EXCEPT !.writes =
                                     IF trace THEN Append(@, bytes) ELSE @])
                  /\ UNCHANGED slotLock
             ELSE /\ pc' = [pc EXCEPT ![t] = "m_poll"]
                  /\ ml' = [ml EXCEPT ![t].writes =
                                          IF trace THEN Append(@, bytes) ELSE @,
                                      ![t].elapsed = 0,
                                      ![t].poll_count = 0]
                  /\ UNCHANGED slotLock
    /\ UNCHANGED <<linked, scanning, config, slot, configLock, op, cl, ret, trace, in_range, sl, call>>

\* Lines 299-337: one iteration of the poll loop.  max_polls bounds the
\* iterations explored.
move_poll(t, max_polls) ==
    /\ pc[t] = "m_poll"
    /\ LET self == Unwrap(slot)
           m == ml[t]
           poll_count == m.poll_count + 1
           m1 == [m EXCEPT !.poll_count = poll_count]
       IN IF timed_out(m.elapsed)
          THEN move_return(t, Err("timeout", 0), m1)
          ELSE \E answer \in Answers :
               IF answer = "never"
               THEN block_in_move(t)
               ELSE
               \E data \in IF answer = "ok" THEN Payloads(m.height_mm) ELSE {<<>>} :
               LET r == get_height(self, answer, data)
                   within == answer = "ok" /\ WithinFiveMm(data, m.height_mm)
                   m2 == IF ~trace THEN m1
                         ELSE [m1 EXCEPT
                            !.reads = @ + r.reads,
                            !.consec_fail = IF r.ok THEN 0 ELSE @ + 1,
                            !.any_failed = @ \/ ~r.ok,
                            !.earlier_within = @ \/ m.last_within,
                            !.last_within = within,
                            !.last_reading = IF r.ok THEN parse_height(data)
                                             ELSE None,
                            !.late_read = @ \/ (m.elapsed > MAX_WAIT_SECS * 1000)]
               IN IF r.ok /\ converged(r.mm, m.height_mm)
                  THEN move_return(t, Ok, m2)
                  ELSE IF ~r.ok /\ read_failure_is_fatal(poll_count)
                  THEN move_return(t, Err("read", 0), m2)
                  ELSE /\ poll_count < max_polls
                       /\ pc' = pc
                       /\ \E latency \in {0, SlowReadMs} :
                            ml' = [ml EXCEPT ![t] =
                                     [m2 EXCEPT !.elapsed =
                                         @ + latency + POLL_INTERVAL_MS]]
    /\ UNCHANGED <<linked, scanning, config, slot, slotLock, configLock, op, cl, ret, trace, in_range, sl, call>>

\* ------------------------------------- calls on a session by its owner
\* One finished call, as the owner saw it and as the transport served it.
CallRecord(name, was_linked, status, data, reads, writes, releases, result, mm) ==
    [op |-> name, was_linked |-> was_linked, status |-> status, data |-> data,
     reads |-> reads, writes |-> writes, releases |-> releases,
     result |-> result, mm |-> mm]

\* Payloads a height read may return outside a move.
SessionPayloads == Payloads(DefaultPresets.Grande) \cup {<<>>}

\* desk.get_height().await on the session the task owns
call_get_height(t) ==
    /\ pc[t] = "session"
    /\ Len(sl) < MaxCalls
    /\ \E answer \in Answers :
         IF answer = "never"
         THEN /\ pc' = [pc EXCEPT ![t] = "blocked"]
              /\ UNCHANGED sl
         ELSE \E data \in IF answer = "ok" THEN SessionPayloads ELSE {<<>>} :
              LET self == Unwrap(slot)
                  r == get_height(self, answer, data)
              IN /\ sl' = Append(sl, CallRecord("get_height",
                                     linked[self.peripheral], answer, data,
                                     r.reads, r.writes, 0,
                                     IF r.ok THEN Ok ELSE Err(r.kind, 0), r.mm))
                 /\ UNCHANGED pc
    /\ UNCHANGED <<linked, scanning, config, slot, slotLock, configLock, op, cl, ml, ret, trace, in_range, call>>

\* desk.disconnect().await on the session the task owns
call_disconnect(t) ==
    /\ pc[t] = "session"
    /\ Len(sl) < MaxCalls
    /\ \E status \in Answers, release \in Answers :
         LET self == Unwrap(slot)
             r == disconnect(self, linked, status, release)
         IN IF ~r.returns
            THEN /\ pc' = [pc EXCEPT ![t] = "blocked"]
                 /\ UNCHANGED <<sl, linked>>
            ELSE /\ sl' = Append(sl, CallRecord("disconnect",
                                     linked[self.peripheral], status, <<>>,
                                     0, 0, r.releases, r.result, 0))
                 /\ linked' = r.linked
                 /\ UNCHANGED pc
    /\ UNCHANGED <<scanning, config, slot, slotLock, configLock, op, cl, ml, ret, trace, in_range, call>>

\* The owner discards the session: Drop runs.
drop_session(t) ==
    /\ pc[t] = "session"
    /\ \E status \in Answers, release \in Answers :
         LET self == Unwrap(slot)
             r == drop(self, linked, status, release)
         IN IF ~r.returns
            THEN /\ pc' = [pc EXCEPT ![t] = "blocked"]
                 /\ UNCHANGED <<sl, linked, slot>>
            ELSE /\ sl' = Append(sl, CallRecord("drop",
                                     linked[self.peripheral], status, <<>>,
                                     0, 0, r.releases, r.result, 0))
                 /\ linked' = r.linked
                 /\ slot' = None
                 /\ pc' = [pc EXCEPT ![t] = "dropped"]
    /\ UNCHANGED <<scanning, config, slotLock, configLock, op, cl, ml, ret, trace, in_range, call>>

\* ------------------------------------------------ application (main.rs)
\* A finished operation hands its result to the task that awaited it.
task_done(t, result) ==
    /\ pc' = [pc EXCEPT ![t] = "done"]
    /\ ret' = [ret EXCEPT ![t] = result]

\* desk_controller.lock().await completes only while nobody holds the mutex
can_lock(lock) == lock = None

\* Presets and addresses the user's requests and config file are drawn from.
PresetInputs == {"Grande", "Venti"}
AddressInputs == {None, Some("D1"), Some("D3")}

\* on_preset_selected (97-115): spawns move_to_preset(preset)
spawn_move_to_preset(t) ==
    /\ pc[t] = "idle"
    /\ \E preset \in PresetInputs :
         /\ ml' = [ml EXCEPT ![t] = [MoveLocals0 EXCEPT !.preset = preset]]
         /\ op' = [op EXCEPT ![t] = "move_to_preset"]
         /\ pc' = [pc EXCEPT ![t] = "ec_lock"]
    /\ UNCHANGED <<linked, scanning, config, slot, slotLock, configLock, cl, ret, trace, in_range, sl, call>>

\* main (343-364, 382-390): the periodic height update
spawn_get_current_height(t) ==
    /\ pc[t] = "idle"
    /\ op' = [op EXCEPT ![t] = "get_current_height"]
    /\ pc' = [pc EXCEPT ![t] = "gch_lock"]
    /\ UNCHANGED <<linked, scanning, config, slot, slotLock, configLock, cl, ml, ret, trace, in_range, sl, call>>

\* on_configure_desk (117-133): spawns scan_and_configure_desk
spawn_scan_and_configure_desk(t) ==
    /\ pc[t] = "idle"
    /\ op' = [op EXCEPT ![t] = "scan_and_configure_desk"]
    /\ pc' = [pc EXCEPT ![t] = "scan_start"]
    /\ UNCHANGED <<linked, scanning, config, slot, slotLock, configLock, cl, ml, ret, trace, in_range, sl, call>>

\* ensure_connected checking the slot and letting go of its guard before
\* it connects
ensure_connected_lock_released(t) ==
    /\ pc[t] = "ec_lock"
    /\ can_lock(slotLock)
    /\ IF IsSome(slot)
       THEN /\ pc' = [pc EXCEPT ![t] = "mtp_cfg_lock"]
       ELSE /\ pc' = [pc EXCEPT ![t] = "ec_cfg_lock"]
    /\ UNCHANGED <<linked, scanning, config, slot, slotLock, configLock, op, cl, ml, ret, trace, in_range, sl, call>>

\* ensure_connected, lines 31-33 and 47-51: the slot is locked; a held session
\* ends the call (the guard is dropped on return).
ensure_connected_lock(t) ==
    /\ pc[t] = "ec_lock"
    /\ can_lock(slotLock)
    /\ IF IsSome(slot)
       THEN /\ pc' = [pc EXCEPT ![t] = "mtp_cfg_lock"]
            /\ UNCHANGED slotLock
       ELSE /\ pc' = [pc EXCEPT ![t] = "ec_cfg_lock"]
            /\ slotLock' = Some(t)
    /\ UNCHANGED <<linked, scanning, config, slot, configLock, op, cl, ml, ret, trace, in_range, sl, call>>

\* Line 35: config.lock().await, with the slot's guard held
ensure_connected_config_lock(t) ==
    /\ pc[t] = "ec_cfg_lock"
    /\ can_lock(configLock)
    /\ configLock' = Some(t)
    /\ pc' = [pc EXCEPT ![t] = "ec_cfg_read"]
    /\ UNCHANGED <<linked, scanning, config, slot, slotLock, op, cl, ml, ret, trace, in_range, sl, call>>

\* ensure_connected connecting to the first desk found when no address is
\* configured
ensure_connected_config_read_first_desk(t) ==
    /\ pc[t] = "ec_cfg_read"
    /\ configLock' = None
    /\ pc' = [pc EXCEPT ![t] = "scan_start"]
    /\ cl' = [cl EXCEPT ![t] =
                [ConnectLocals0 EXCEPT !.in_connect = TRUE,
                                       !.desk_address = config.desk_address]]
    /\ UNCHANGED <<linked, scanning, config, slot, slotLock, op, ml, ret, trace, in_range, sl, call>>

\* Lines 36-44: the address is read, the config guard dropped; no address is
\* an error, otherwise connect starts (the slot's guard still held).
ensure_connected_config_read(t) ==
    /\ pc[t] = "ec_cfg_read"
    /\ configLock' = None
    /\ IF config.desk_address = None
       THEN /\ task_done(t, Err("no_desk_configured", 0))
            /\ slotLock' = None
            /\ UNCHANGED cl
       ELSE /\ pc' = [pc EXCEPT ![t] = "scan_start"]
            /\ cl' = [cl EXCEPT ![t] =
                        [ConnectLocals0 EXCEPT !.in_connect = TRUE,
                                               !.desk_address = config.desk_address]]
            /\ UNCHANGED <<slotLock, ret>>
    /\ UNCHANGED <<linked, scanning, config, slot, op, ml, trace, in_range, sl, call>>

\* Lines 44-51: connect's error is returned, or its controller is stored.
ensure_connected_store(t) ==
    /\ pc[t] = "connect_ret"
    /\ op[t] = "move_to_preset"
    /\ slotLock' = None
    /\ cl' = [cl EXCEPT ![t] = ConnectLocals0]
    /\ IF cl[t].result.ok
       THEN /\ slot' = cl[t].controller
            /\ pc' = [pc EXCEPT ![t] = "mtp_cfg_lock"]
            /\ UNCHANGED ret
       ELSE /\ task_done(t, cl[t].result)
            /\ UNCHANGED slot
    /\ UNCHANGED <<linked, scanning, config, configLock, op, ml, trace, in_range, sl, call>>

\* move_to_preset, line 60
move_to_preset_config_lock(t) ==
    /\ pc[t] = "mtp_cfg_lock"
    /\ can_lock(configLock)
    /\ configLock' = Some(t)
    /\ pc' = [pc EXCEPT ![t] = "mtp_cfg_read"]
    /\ UNCHANGED <<linked, scanning, config, slot, slotLock, op, cl, ml, ret, trace, in_range, sl, call>>

\* move_to_preset keeping the config guard while it locks the slot
move_to_preset_config_read_guard_kept(t) ==
    /\ pc[t] = "mtp_cfg_read"
    /\ ml' = [ml EXCEPT ![t].height_mm = get_preset(config, ml[t].preset)]
    /\ pc' = [pc EXCEPT ![t] = "mtp_lock"]
    /\ UNCHANGED <<linked, scanning, config, slot, slotLock, configLock, op, cl, ret, trace, in_range, sl, call>>

\* Lines 61-62
move_to_preset_config_read(t) ==
    /\ pc[t] = "mtp_cfg_read"
    /\ configLock' = None
    /\ ml' = [ml EXCEPT ![t].height_mm = get_preset(config, ml[t].preset)]
    /\ pc' = [pc EXCEPT ![t] = "mtp_lock"]
    /\ UNCHANGED <<linked, scanning, config, slot, slotLock, op, cl, ret, trace, in_range, sl, call>>

\* Lines 66-74 with the guard dropped before move_to_height is awaited.
move_to_preset_lock_guard_dropped(t) ==
    /\ pc[t] = "mtp_lock"
    /\ can_lock(slotLock)
    /\ IF IsSome(slot)
       THEN /\ pc' = [pc EXCEPT ![t] = "m_write"]
            /\ UNCHANGED <<slotLock, ret>>
       ELSE /\ task_done(t, Err("unavailable", 0))
            /\ UNCHANGED slotLock
    /\ UNCHANGED <<linked, scanning, config, slot, configLock, op, cl, ml, trace, in_range, sl, call>>

\* Lines 66-74: the slot is locked for the whole move_to_height call.
move_to_preset_lock(t) ==
    /\ pc[t] = "mtp_lock"
    /\ can_lock(slotLock)
    /\ IF IsSome(slot)
       THEN /\ slotLock' = Some(t)
            /\ pc' = [pc EXCEPT ![t] = "m_write"]
            /\ UNCHANGED ret
       ELSE /\ task_done(t, Err("unavailable", 0))
            /\ UNCHANGED slotLock
    /\ UNCHANGED <<linked, scanning, config, slot, configLock, op, cl, ml, trace, in_range, sl, call>>

\* move_to_preset discarding the session when move_to_height failed
move_to_preset_return_discarding(t) ==
    /\ pc[t] = "move_ret"
    /\ op[t] = "move_to_preset"
    /\ slotLock' = None
    /\ slot' = IF ml[t].result.ok THEN slot ELSE None
    /\ task_done(t, ml[t].result)
    /\ UNCHANGED <<linked, scanning, config, configLock, op, cl, ml, trace, in_range, sl, call>>

\* Lines 69-76: move_to_height returned; the guard is dropped on return.
move_to_preset_return(t) ==
    /\ pc[t] = "move_ret"
    /\ op[t] = "move_to_preset"
    /\ slotLock' = None
    /\ task_done(t, ml[t].result)
    /\ UNCHANGED <<linked, scanning, config, slot, configLock, op, cl, ml, trace, in_range, sl, call>>

\* get_current_height looking into the slot without waiting for its lock
get_current_height_lock_not_awaited(t) ==
    /\ pc[t] = "gch_lock"
    /\ IF IsSome(slot)
       THEN /\ pc' = [pc EXCEPT ![t] = "gch_read"]
            /\ UNCHANGED ret
       ELSE /\ task_done(t, Err("none", 0))
    /\ UNCHANGED <<linked, scanning, config, slot, slotLock, configLock, op, cl, ml, trace, in_range, sl, call>>

\* get_current_height, lines 81-86: an empty slot gives None at once.
get_current_height_lock(t) ==
    /\ pc[t] = "gch_lock"
    /\ can_lock(slotLock)
    /\ IF IsSome(slot)
       THEN /\ slotLock' = Some(t)
            /\ pc' = [pc EXCEPT ![t] = "gch_read"]
            /\ UNCHANGED ret
       ELSE /\ task_done(t, Err("none", 0))
            /\ UNCHANGED slotLock
    /\ UNCHANGED <<linked, scanning, config, slot, configLock, op, cl, ml, trace, in_range, sl, call>>

\* Line 83: desk.get_height().await.ok()
get_current_height_read(t) ==
    /\ pc[t] = "gch_read"
    /\ \E answer \in Answers :
         IF answer = "never"
         THEN /\ block_in_move(t)
              /\ UNCHANGED <<slotLock, ret>>
         ELSE \E data \in IF answer = "ok"
                           THEN Payloads(DefaultPresets.Grande) ELSE {<<>>} :
              LET r == get_height(Unwrap(slot), answer, data) IN
              /\ slotLock' = None
              /\ ml' = [ml EXCEPT ![t].reads = IF trace THEN @ + r.reads ELSE @]
              /\ task_done(t, IF r.ok THEN Ok ELSE Err("none", 0))
    /\ UNCHANGED <<linked, scanning, config, slot, configLock, op, cl, trace, in_range, sl, call>>

\* scan_and_configure_desk, lines 160-176: the scan's result, the first desk,
\* its address.
configure_pick(t) ==
    /\ pc[t] = "scan_ret"
    /\ ~cl[t].in_connect
    /\ op[t] = "scan_and_configure_desk"
    /\ LET c == cl[t] IN
       IF ~c.result.ok
       THEN /\ task_done(t, c.result)
            /\ cl' = [cl EXCEPT ![t] = ConnectLocals0]
       ELSE IF c.desks = <<>>
       THEN /\ task_done(t, Err("no_desks", 0))
            /\ cl' = [cl EXCEPT ![t] = ConnectLocals0]
       ELSE \E props \in BOOLEAN :
              IF ~props
              THEN /\ task_done(t, Err("no_properties", 0))
                   /\ cl' = [cl EXCEPT ![t] = ConnectLocals0]
              ELSE /\ pc' = [pc EXCEPT ![t] = "cfg_cfg_lock"]
                   /\ cl' = [cl EXCEPT ![t] =
                               [ConnectLocals0 EXCEPT
                                   !.desk_address = Some(Head(c.desks))]]
                   /\ UNCHANGED ret
    /\ UNCHANGED <<linked, scanning, config, slot, slotLock, configLock, op, ml, trace, in_range, sl, call>>

\* Line 179
configure_config_lock(t) ==
    /\ pc[t] = "cfg_cfg_lock"
    /\ can_lock(configLock)
    /\ configLock' = Some(t)
    /\ pc' = [pc EXCEPT ![t] = "cfg_cfg_save"]
    /\ UNCHANGED <<linked, scanning, config, slot, slotLock, op, cl, ml, ret, trace, in_range, sl, call>>

\* Lines 180-188: the address is set and saved before connect is called;
\* a failed save returns with the address set in memory.
configure_config_save(t) ==
    /\ pc[t] = "cfg_cfg_save"
    /\ configLock' = None
    /\ config' = [config EXCEPT !.desk_address = cl[t].desk_address]
    /\ \E saved \in BOOLEAN :
         IF saved
         THEN /\ pc' = [pc EXCEPT ![t] = "scan_start"]
              /\ cl' = [cl EXCEPT ![t].in_connect = TRUE]
              /\ UNCHANGED ret
         ELSE /\ task_done(t, Err("save", 0))
              /\ cl' = [cl EXCEPT ![t] = ConnectLocals0]
    /\ UNCHANGED <<linked, scanning, slot, slotLock, op, ml, trace, in_range, sl, call>>

\* A failed connect taking the address out of the configuration again
configure_connect_failed_rolling_back(t) ==
    /\ pc[t] = "connect_ret"
    /\ op[t] = "scan_and_configure_desk"
    /\ ~cl[t].result.ok
    /\ task_done(t, cl[t].result)
    /\ cl' = [cl EXCEPT ![t] = ConnectLocals0]
    /\ config' = [config EXCEPT !.desk_address = None]
    /\ UNCHANGED <<linked, scanning, slot, slotLock, configLock, op, ml, trace, in_range, sl, call>>

\* Line 188: connect(Some(address)).await? failed
configure_connect_failed(t) ==
    /\ pc[t] = "connect_ret"
    /\ op[t] = "scan_and_configure_desk"
    /\ ~cl[t].result.ok
    /\ task_done(t, cl[t].result)
    /\ cl' = [cl EXCEPT ![t] = ConnectLocals0]
    /\ UNCHANGED <<linked, scanning, config, slot, slotLock, configLock, op, ml, trace, in_range, sl, call>>

\* Lines 189-194: the slot is locked and the new controller stored.  The
\* controller it replaces is dropped: Drop (358-363) runs disconnect
\* (349-355), is_connected then disconnect, neither under a timeout, and
\* discards the result.
configure_store(t) ==
    /\ pc[t] = "connect_ret"
    /\ op[t] = "scan_and_configure_desk"
    /\ cl[t].result.ok
    /\ can_lock(slotLock)
    /\ \E status \in Answers, release \in Answers :
         LET old == slot
             dropped == IF IsSome(old)
                        THEN drop(Unwrap(old), linked, status, release)
                        ELSE Outcome(TRUE, Ok, linked, 0)
         IN IF ~dropped.returns
            THEN /\ pc' = [pc EXCEPT ![t] = "blocked"]
                 /\ slotLock' = Some(t)
                 /\ UNCHANGED <<slot, linked, cl, ret>>
            ELSE /\ linked' = dropped.linked
                 /\ slot' = cl[t].controller
                 /\ cl' = [cl EXCEPT ![t] = ConnectLocals0]
                 /\ task_done(t, Ok)
                 /\ UNCHANGED slotLock
    /\ UNCHANGED <<scanning, config, configLock, op, ml, trace, in_range, sl, call>>

\* The spawned task ends; its locals are gone.
finish(t) ==
    /\ pc[t] \in {"done", "panicked"}
    /\ pc' = [pc EXCEPT ![t] = "idle"]
    /\ op' = [op EXCEPT ![t] = "none"]
    /\ cl' = [cl EXCEPT ![t] = ConnectLocals0]
    /\ ml' = [ml EXCEPT ![t] = MoveLocals0]
    /\ ret' = [ret EXCEPT ![t] = Pending]
    /\ UNCHANGED <<linked, scanning, config, slot, slotLock, configLock, trace, in_range, sl, call>>

\* -------------------------------------------------------- specifications
LinkStates == {f \in [Devices -> BOOLEAN] : \A d \in Devices \ {"D1", "D2"} : ~f[d]}

\* The application after AppState::new (22-27): no session, no task.
Init ==
    /\ linked = [d \in Devices |-> FALSE]
    /\ trace = FALSE
    /\ scanning = FALSE
    /\ config \in [desk_address : AddressInputs, presets : {EditedPresets}]
    /\ in_range = {"D1", "D3", "D4"}
    /\ slot = None
    /\ slotLock = None
    /\ configLock = None
    /\ pc = [t \in Tasks |-> "idle"]
    /\ op = [t \in Tasks |-> "none"]
    /\ cl = [t \in Tasks |-> ConnectLocals0]
    /\ ml = [t \in Tasks |-> MoveLocals0]
    /\ ret = [t \in Tasks |-> Pending]
    /\ sl = <<>>
    /\ call = NoCall

Next ==
    \E t \in Tasks :
        \/ spawn_move_to_preset(t)
        \/ spawn_get_current_height(t)
        \/ spawn_scan_and_configure_desk(t)
        \/ ensure_connected_lock(t)
        \/ ensure_connected_config_lock(t)
        \/ ensure_connected_config_read(t)
        \/ ensure_connected_store(t)
        \/ move_to_preset_config_lock(t)
        \/ move_to_preset_config_read(t)
        \/ move_to_preset_lock(t)
        \/ move_to_preset_return(t)
        \/ get_current_height_lock(t)
        \/ get_current_height_read(t)
        \/ configure_pick(t)
        \/ configure_config_lock(t)
        \/ configure_config_save(t)
        \/ configure_connect_failed(t)
        \/ configure_store(t)
        \/ scan_start(t)
        \/ scan_collect(t)
        \/ connect_select(t)
        \/ connect_settle(t)
        \/ ctp_status(t)
        \/ ctp_link(t)
        \/ ctp_discover(t)
        \/ connect_retry_status(t)
        \/ connect_retry_release(t)
        \/ move_write(t)
        \/ move_poll(t, MaxPolls)
        \/ finish(t)

Spec == Init /\ [][Next]_vars

\* One call of DeskController::connect(desk_address) by task 1.
InitConnect ==
    /\ linked \in LinkStates
    /\ trace = TRUE
    /\ in_range = Devices
    /\ scanning = FALSE
    /\ config = [desk_address |-> None, presets |-> DefaultPresets]
    /\ slot = None
    /\ slotLock = None
    /\ configLock = None
    /\ pc = [t \in Tasks |-> IF t = 1 THEN "scan_start" ELSE "idle"]
    /\ op = [t \in Tasks |-> IF t = 1 THEN "connect" ELSE "none"]
    /\ \E desk_address \in {None, Some("D1"), Some("D2"), Some("D3")} :
         cl = [t \in Tasks |->
                 IF t = 1
                 THEN [ConnectLocals0 EXCEPT !.in_connect = TRUE,
                                             !.desk_address = desk_address]
                 ELSE ConnectLocals0]
    /\ ml = [t \in Tasks |-> MoveLocals0]
    /\ ret = [t \in Tasks |-> Pending]
    /\ sl = <<>>
    /\ call = NoCall

NextConnect ==
    \E t \in Tasks :
        \/ scan_start(t)
        \/ scan_collect(t)
        \/ connect_select(t)
        \/ connect_settle(t)
        \/ ctp_status(t)
        \/ ctp_link(t)
        \/ ctp_discover(t)
        \/ connect_retry_status(t)
        \/ connect_retry_release(t)

SpecConnect == InitConnect /\ [][NextConnect]_vars

\* Heights move_to_height is called with: a preset, 0, the largest height
\* whose units fit 16 bits, the first that does not, and the largest u16.
HeightInputs == {0, 1050, 6553, 6554, U16 - 1}

\* One call of move_to_height(height_mm) by task 1 on a connected session.
InitMove ==
    /\ linked = [d \in Devices |-> d = "D1"]
    /\ trace = TRUE
    /\ in_range = Devices
    /\ scanning = FALSE
    /\ config = [desk_address |-> Some("D1"), presets |-> DefaultPresets]
    /\ slot = Some(DeskController("D1", Some("control"), Some("height")))
    /\ slotLock = Some(1)
    /\ configLock = None
    /\ pc = [t \in Tasks |-> IF t = 1 THEN "m_write" ELSE "idle"]
    /\ op = [t \in Tasks |-> IF t = 1 THEN "move_to_height" ELSE "none"]
    /\ cl = [t \in Tasks |-> ConnectLocals0]
    /\ \E height_mm \in HeightInputs :
         ml = [t \in Tasks |->
                 IF t = 1 THEN [MoveLocals0 EXCEPT !.height_mm = height_mm]
                 ELSE MoveLocals0]
    /\ ret = [t \in Tasks |-> Pending]
    /\ sl = <<>>
    /\ call = NoCall

NextMove ==
    \E t \in Tasks :
        \/ move_write(t)
        \/ move_poll(t, MaxPolls)

SpecMove == InitMove /\ [][NextMove]_vars

\* The same call with the poll loop left to run until it returns: every
\* iteration sleeps POLL_INTERVAL_MS, so the timeout check ends it within
\* PollsToTimeout iterations.  The task is scheduled whenever it can run.
NextMoveTimed ==
    \E t \in Tasks :
        \/ move_write(t)
        \/ move_poll(t, PollsToTimeout)

SpecMoveTimed ==
    /\ InitMove
    /\ [][NextMoveTimed]_vars
    /\ \A t \in Tasks : WF_vars(move_write(t) \/ move_poll(t, PollsToTimeout))

\* Task 1 owns a session to D1 or D2, calls it MaxCalls times at most and
\* drops it; the link may already be down when it starts.
InitSession ==
    /\ linked \in LinkStates
    /\ trace = TRUE
    /\ in_range = Devices
    /\ scanning = FALSE
    /\ config = [desk_address |-> None, presets |-> DefaultPresets]
    /\ \E p \in {"D1", "D2"} :
         slot = Some(DeskController(p, Some("control"), Some("height")))
    /\ slotLock = Some(1)
    /\ configLock = None
    /\ pc = [t \in Tasks |-> IF t = 1 THEN "session" ELSE "idle"]
    /\ op = [t \in Tasks |-> IF t = 1 THEN "session" ELSE "none"]
    /\ cl = [t \in Tasks |-> ConnectLocals0]
    /\ ml = [t \in Tasks |-> MoveLocals0]
    /\ ret = [t \in Tasks |-> Pending]
    /\ sl = <<>>
    /\ call = NoCall

NextSession ==
    \E t \in Tasks :
        \/ call_get_height(t)
        \/ call_disconnect(t)
        \/ drop_session(t)

SpecSession == InitSession /\ [][NextSession]_vars

\* The protocol functions are applied to inputs of their domains (InitCodec):
\* every command, byte strings up to MaxPayloadLen over a few byte values,
\* every u16 height.
FixedCommands == {[cmd |-> c, height |-> 0] : c \in {"Stop", "Up", "Down"}}

ByteSamples == {0, 4, 41, 255}

RECURSIVE byte_strings(_)
byte_strings(n) ==
    IF n = 0 THEN {<<>>}
    ELSE LET shorter == byte_strings(n - 1)
         IN shorter \cup {Append(b, x) : b \in shorter, x \in ByteSamples}

CallOf(fn, arg) == [fn |-> fn, arg |-> arg, out |-> <<>>, done |-> FALSE]

apply_to_bytes ==
    /\ call.fn = "to_bytes" /\ ~call.done
    /\ call' = [call EXCEPT !.out = to_bytes(call.arg), !.done = TRUE]
    /\ UNCHANGED <<linked, scanning, config, slot, slotLock, configLock, pc, op, cl, ml, ret, trace, in_range, sl>>

apply_parse_height ==
    /\ call.fn = "parse_height" /\ ~call.done
    /\ call' = [call EXCEPT !.out = parse_height(call.arg), !.done = TRUE]
    /\ UNCHANGED <<linked, scanning, config, slot, slotLock, configLock, pc, op, cl, ml, ret, trace, in_range, sl>>

apply_mm_to_desk_units ==
    /\ call.fn = "mm_to_desk_units" /\ ~call.done
    /\ call' = [call EXCEPT
                  !.out = mm_to_desk_units(call.arg.mm, call.arg.overflow_checks),
                  !.done = TRUE]
    /\ UNCHANGED <<linked, scanning, config, slot, slotLock, configLock, pc, op, cl, ml, ret, trace, in_range, sl>>

\* desk_units_to_mm applied to the units mm_to_desk_units returned
apply_desk_units_to_mm ==
    /\ call.fn = "mm_to_desk_units" /\ call.done /\ ~call.out.panic
    /\ call' = [fn |-> "desk_units_to_mm", arg |-> call.arg,
                out |-> desk_units_to_mm(call.out.units), done |-> TRUE]
    /\ UNCHANGED <<linked, scanning, config, slot, slotLock, configLock, pc, op, cl, ml, ret, trace, in_range, sl>>

InitCodec ==
    /\ linked = [d \in Devices |-> FALSE]
    /\ trace = TRUE
    /\ in_range = Devices
    /\ scanning = FALSE
    /\ config = [desk_address |-> None, presets |-> DefaultPresets]
    /\ slot = None
    /\ slotLock = None
    /\ configLock = None
    /\ pc = [t \in Tasks |-> "idle"]
    /\ op = [t \in Tasks |-> "none"]
    /\ cl = [t \in Tasks |-> ConnectLocals0]
    /\ ml = [t \in Tasks |-> MoveLocals0]
    /\ ret = [t \in Tasks |-> Pending]
    /\ sl = <<>>
    /\ \/ \E c \in FixedCommands : call = CallOf("to_bytes", c)
       \/ \E u \in 0..(U16 - 1) :
            call = CallOf("to_bytes", [cmd |-> "MoveToHeight", height |-> u])
       \/ \E d \in byte_strings(MaxPayloadLen) : call = CallOf("parse_height", d)
       \/ \E mm \in 0..(U16 - 1), oc \in BOOLEAN :
            call = CallOf("mm_to_desk_units", [mm |-> mm, overflow_checks |-> oc])

NextCodec ==
    \/ apply_to_bytes
    \/ apply_parse_height
    \/ apply_mm_to_desk_units
    \/ apply_desk_units_to_mm

SpecCodec == InitCodec /\ [][NextCodec]_vars

\* ----------------------------------------------------------------- claims
\* The DeskControllers that exist: the one in the slot and those a task holds.
NumControllers ==
    (IF IsSome(slot) THEN 1 ELSE 0)
        + Cardinality({t \in Tasks : IsSome(cl[t].controller)})

Controllers ==
    (IF IsSome(slot) THEN {Unwrap(slot)} ELSE {})
        \cup {Unwrap(cl[t].controller) : t \in {u \in Tasks : IsSome(cl[u].controller)}}

Returned(t) == pc[t] = "connect_ret"

\* C1: connect makes at most 3 connection attempts; no attempt follows a
\* successful one; connect returns a controller exactly when its last attempt
\* succeeded, so if attempt k is the first to succeed it returns after exactly
\* k attempts (failed, failed, ok: 3 attempts).
C1_ConnectReturnsAtFirstSuccess ==
    \A t \in Tasks :
        LET h == cl[t].history IN
        /\ Len(h) <= 3
        /\ cl[t].attempt <= 3
        /\ \A i \in 1..Len(h) :
             h[i] = "ok" =>
                /\ i = Len(h)
                /\ Returned(t)
                /\ cl[t].result.ok
                /\ IsSome(cl[t].controller)
        /\ (Returned(t) /\ cl[t].result.ok) => (h # <<>> /\ h[Len(h)] = "ok")

C1_Witness ==
    \E t \in Tasks :
        /\ Returned(t)
        /\ cl[t].result.ok
        /\ IsSome(cl[t].controller)
        /\ cl[t].history = <<"link", "link", "ok">>

\* C2: when every attempt fails, connect returns an error after exactly 3
\* attempts, and the error is the third attempt's.
C2_LastErrorReturned ==
    \A t \in Tasks :
        LET h == cl[t].history IN
        (Returned(t) /\ ~cl[t].result.ok /\ h # <<>>) =>
            /\ Len(h) = 3
            /\ \A i \in 1..3 : h[i] # "ok"
            /\ cl[t].result = Err(h[3], 3)

C2_Witness ==
    \E t \in Tasks :
        /\ Returned(t)
        /\ cl[t].history = <<"link", "status", "discover">>
        /\ cl[t].result = Err("discover", 3)

\* C3: an attempt that finds the control or the height endpoint missing is
\* the last attempt of the call: no further attempt is started after it.
C3_MissingEndpointNotRetried ==
    \A t \in Tasks :
        LET h == cl[t].history IN
        \A i \in 1..Len(h) :
            h[i] \in {"no_control", "no_height"} =>
                /\ i = Len(h)
                /\ pc[t] \notin {"ctp_status", "ctp_link", "ctp_discover"}

\* C4: every DeskController that exists, in the slot or in a task's hands,
\* has both its control and its height endpoint.
C4_BothEndpointsResolved ==
    \A c \in Controllers : c.control_char # None /\ c.height_char # None

C4_Witness ==
    /\ IsSome(slot)
    /\ \E t \in Tasks : IsSome(cl[t].controller)

\* C5: move_to_height returns success only at a poll whose reading is within
\* 5 mm of the target, and that poll is the first with such a reading.
C5_SuccessAtFirstReadingWithinTolerance ==
    \A t \in Tasks :
        /\ (pc[t] = "move_ret" /\ ml[t].result.ok) =>
              (ml[t].last_within /\ ~ml[t].earlier_within)
        /\ pc[t] = "m_poll" => (~ml[t].last_within /\ ~ml[t].earlier_within)

C5_Witness ==
    \E t \in Tasks :
        /\ pc[t] = "move_ret"
        /\ ml[t].result.ok
        /\ ml[t].height_mm = 1050
        /\ ml[t].reads >= 3

\* C6: with reads that all succeed, the timeout error is returned never
\* before 30 s have elapsed, and no loop iteration that begins more than 30 s
\* after the loop started reads the height: the first such iteration returns
\* the timeout.
C6_TimeoutAtFirstIterationPastCeiling ==
    \A t \in Tasks :
        ~ml[t].any_failed =>
            /\ (pc[t] = "move_ret" /\ ml[t].result.kind = "timeout") =>
                  ml[t].elapsed >= 30 * 1000
            /\ ~ml[t].late_read

\* C7: a failed read aborts the move only when more than 5 reads in a row
\* have failed.
C7_AbortOnlyAfterConsecutiveFailures ==
    \A t \in Tasks :
        (pc[t] = "move_ret" /\ ml[t].result.kind = "read") =>
            ml[t].consec_fail > 5

\* C8: while one task's move_to_height runs (from before its write to its
\* return) no other task is in move_to_height, and the running task holds the
\* slot's lock.
InMove(t) == pc[t] \in {"m_write", "m_poll", "move_ret"}

C8_MovesDoNotInterleave ==
    \A t \in Tasks :
        InMove(t) =>
            /\ slotLock = Some(t)
            /\ \A u \in Tasks \ {t} : ~InMove(u)

C8_Witness ==
    \E t, u \in Tasks :
        /\ t # u
        /\ op[t] = "move_to_preset" /\ pc[t] = "m_poll" /\ ml[t].poll_count >= 1
        /\ op[u] = "move_to_preset" /\ pc[u] = "mtp_lock"

\* C9: at most one DeskController exists at any moment.
C9_AtMostOneSession == NumControllers <= 1

\* C10: no call is left waiting forever on a transport operation that never
\* answers: each such operation ends in an error return.
C10_NoCallWaitsForever == \A t \in Tasks : pc[t] # "blocked"

\* C11 as stated: a disconnect called with the link already released issues
\* no release request and returns success; of two disconnect calls in
\* succession the second returns success, and together they issue exactly one
\* release request (none when the link was down before the first).
C11_DisconnectIdempotent ==
    \A i \in 1..Len(sl) :
        sl[i].op = "disconnect" =>
            /\ ~sl[i].was_linked => (sl[i].releases = 0 /\ sl[i].result.ok)
            /\ (i > 1 /\ sl[i - 1].op = "disconnect") =>
                  /\ sl[i].result.ok
                  /\ sl[i - 1].releases + sl[i].releases =
                        (IF sl[i - 1].was_linked THEN 1 ELSE 0)

\* C11 amended: when the transport answers the link-status query, a
\* disconnect called with the link already released issues no release request
\* and returns success; and after a disconnect that returned success, a
\* second one whose status query is answered returns success, the two
\* issuing exactly one release request (none when the link was down before).
C11_DisconnectIdempotentWhenAnswered ==
    \A i \in 1..Len(sl) :
        (sl[i].op = "disconnect" /\ sl[i].status = "ok") =>
            /\ ~sl[i].was_linked => (sl[i].releases = 0 /\ sl[i].result.ok)
            /\ (i > 1 /\ sl[i - 1].op = "disconnect" /\ sl[i - 1].result.ok) =>
                  /\ sl[i].result.ok
                  /\ sl[i - 1].releases + sl[i].releases =
                        (IF sl[i - 1].was_linked THEN 1 ELSE 0)

C11_Witness ==
    /\ Len(sl) = 2
    /\ sl[1].op = "disconnect" /\ sl[1].was_linked /\ sl[1].result.ok
    /\ sl[1].releases = 1
    /\ sl[2].op = "disconnect" /\ sl[2].result.ok /\ sl[2].releases = 0

\* C12: every session dropped while its link is active has a link release
\* requested by its drop, and the drop reports no failure.
C12_DropRequestsRelease ==
    \A i \in 1..Len(sl) :
        (sl[i].op = "drop" /\ sl[i].was_linked) =>
            (sl[i].releases = 1 /\ sl[i].result.ok)

\* C13 as stated: every attempt of a connect call is preceded by a scan of
\* its own, so attempt k starts only after k scans.
C13_EveryAttemptRescans ==
    \A t \in Tasks :
        (cl[t].in_connect /\ cl[t].attempt >= 1) => cl[t].scans >= cl[t].attempt

\* C13 amended: a connect call scans exactly once, before its first attempt;
\* its retries repeat the attempt on the peripheral already selected and do
\* not scan again.
C13_ScansOncePerConnect ==
    \A t \in Tasks :
        /\ cl[t].scans <= 1
        /\ (cl[t].in_connect /\ cl[t].attempt >= 1) => cl[t].scans = 1

C13_Witness ==
    \E t \in Tasks : cl[t].in_connect /\ cl[t].attempt = 3 /\ cl[t].scans = 1

\* C14: a scan that matched nothing returns success, never a no-desks error.
\* Connect, given the scan's list, returns the no-desks error when the list
\* is empty and the not-found error when an address is given and no candidate
\* has it; both returns come before any connection attempt and leave every
\* link as it was.
ScanErrors == {"adapter", "start_scan", "peripherals", "stop_scan"}

C15_GetHeightSingleRead ==
    \A i \in 1..Len(sl) :
        sl[i].op = "get_height" =>
            /\ sl[i].reads = 1
            /\ sl[i].writes = 0
            /\ (sl[i].status = "ok" /\ Len(sl[i].data) >= 2) =>
                  /\ sl[i].result.ok
                  /\ sl[i].mm = (sl[i].data[1] + 256 * sl[i].data[2]) \div 10
            /\ (sl[i].status = "err" \/ Len(sl[i].data) < 2) => ~sl[i].result.ok

C15_Witness ==
    \E i \in 1..Len(sl) :
        /\ sl[i].op = "get_height" /\ sl[i].result.ok
        /\ sl[i].data = <<209, 40, 7>> /\ sl[i].mm = 1044

\* C16: to_bytes gives Stop -> [0xFF, 0x00], Up -> [0x47, 0x00],
\* Down -> [0x46, 0x00] and, for every 16-bit u,
\* MoveToHeight(u) -> [0x05, u mod 256, u div 256];
\* MoveToHeight(10500) -> [0x05, 0x04, 0x29].
C16_ToBytesEncoding ==
    (call.fn = "to_bytes" /\ call.done) =>
        /\ call.arg.cmd = "Stop" => call.out = <<255, 0>>
        /\ call.arg.cmd = "Up" => call.out = <<71, 0>>
        /\ call.arg.cmd = "Down" => call.out = <<70, 0>>
        /\ call.arg.cmd = "MoveToHeight" =>
              /\ Len(call.out) = 3
              /\ call.out[1] = 5
              /\ call.out[2] + 256 * call.out[3] = call.arg.height
              /\ call.out[2] < 256
        /\ call.arg = [cmd |-> "MoveToHeight", height |-> 10500] =>
              call.out = <<5, 4, 41>>

C16_Witness ==
    /\ call.fn = "to_bytes" /\ call.done
    /\ call.arg = [cmd |-> "MoveToHeight", height |-> 10500]
    /\ call.out = <<5, 4, 41>>

\* C17: parse_height returns no value for an input of length 0 or 1 and
\* byte0 + 256 * byte1 for an input of length 2 or more, whatever follows the
\* first two bytes.
C17_ParseHeight ==
    (call.fn = "parse_height" /\ call.done) =>
        /\ Len(call.arg) < 2 => call.out = <<>>
        /\ Len(call.arg) >= 2 =>
              call.out = <<call.arg[1] + 256 * call.arg[2]>>

C17_Witness ==
    /\ call.fn = "parse_height" /\ call.done
    /\ call.arg = <<4, 41, 255>> /\ call.out = <<10500>>

\* C18: for every mm in 0..6553, mm_to_desk_units(mm) is 10 * mm, which fits
\* in 16 bits, and desk_units_to_mm of it is mm again.
C18_RoundTrip ==
    (call.done /\ call.fn \in {"mm_to_desk_units", "desk_units_to_mm"}
        /\ call.arg.mm <= 6553) =>
        /\ call.fn = "mm_to_desk_units" =>
              /\ ~call.out.panic
              /\ call.out.units = 10 * call.arg.mm
              /\ call.out.units < 65536
        /\ call.fn = "desk_units_to_mm" => call.out = call.arg.mm

C18_Witness ==
    /\ call.fn = "desk_units_to_mm" /\ call.done
    /\ call.arg.mm = 6553 /\ call.out = 6553

\* C19: a scan that returns a list returns exactly the observed devices whose
\* properties were readable and whose advertised name contains "desk", "dpg"
\* or "linak" in any letter case ("Desk 1", "LINAK" and "myDPG" do; "Chair"
\* and a device with no name do not), in the order they were observed.
NamedWithKeyword == {"D1", "D2", "D5"}

C19_ScanReturnsKeywordMatchesInOrder ==
    \A t \in Tasks :
        (pc[t] = "scan_ret" /\ cl[t].result.ok) =>
            LET Keep(d) == d \in cl[t].readable /\ d \in NamedWithKeyword
            IN cl[t].desks = SelectSeq(cl[t].observed, Keep)

C19_Witness ==
    \E t \in Tasks :
        /\ pc[t] = "scan_ret" /\ cl[t].result.ok
        /\ cl[t].observed = <<"D5", "D1">>
        /\ cl[t].readable = {"D1", "D5"}
        /\ cl[t].desks = <<"D5", "D1">>

\* C20: every move_to_height call issues exactly one write, carrying
\* MoveToHeight(10 * target_mm), before any height read; a failed write
\* returns with no read made; no exit path writes anything further.
C20_OneWriteBeforeReads ==
    \A t \in Tasks :
        LET m == ml[t] IN
        /\ pc[t] \in {"m_poll", "move_ret", "panicked"} =>
              /\ Len(m.writes) = 1
              /\ m.writes[1][1] = 5
              /\ m.writes[1][2] + 256 * m.writes[1][3] = 10 * m.height_mm
        /\ m.reads > 0 => Len(m.writes) = 1
        /\ (pc[t] = "move_ret" /\ m.result.kind = "write") => m.reads = 0

\* C21: an iteration of the poll loop that begins more than 30 s after the
\* loop started reads no height, and none returns success, even with the desk
\* within tolerance by then: it returns the timeout.
C21_TimeoutPrecedesConvergence ==
    \A t \in Tasks :
        /\ ~ml[t].late_read
        /\ (pc[t] = "move_ret" /\ ml[t].result.ok) => ml[t].elapsed <= 30 * 1000

\* The link-status query of the Err arm reported the peripheral linked.
ReportedLinked(request) ==
    request.req = "retry_status" /\ request.answer = "ok" /\ request.linked

\* C22 as stated: after a failed attempt whose status query reports the
\* peripheral linked, the next request is the release; and connect returns no
\* error, after attempts, with the link active unless its last request was
\* the release.
C22_NoErrorReturnWithUnreleasedLink ==
    \A t \in Tasks :
        LET q == cl[t].requests IN
        /\ \A i \in 1..Len(q) :
              ReportedLinked(q[i]) =>
                  IF i < Len(q) THEN q[i + 1].req = "release"
                  ELSE pc[t] = "retry_release"
        /\ (Returned(t) /\ ~cl[t].result.ok /\ q # <<>> /\ q[Len(q)].linked) =>
              q[Len(q)].req = "release"

\* C22 amended: after a failed attempt (the last included) whose status query
\* reports the peripheral linked, the next request is the release, before the
\* next attempt and before connect returns; a release is requested only then;
\* connect returns an error after attempts with its last request either the
\* release or a status query that failed or reported the peripheral unlinked.
C22_ReleaseWhenReportedLinked ==
    \A t \in Tasks :
        LET q == cl[t].requests IN
        /\ \A i \in 1..Len(q) :
              /\ ReportedLinked(q[i]) =>
                    IF i < Len(q) THEN q[i + 1].req = "release"
                    ELSE pc[t] = "retry_release"
              /\ q[i].req = "release" => (i > 1 /\ ReportedLinked(q[i - 1]))
        /\ (Returned(t) /\ ~cl[t].result.ok /\ q # <<>>) =>
              \/ q[Len(q)].req = "release"
              \/ q[Len(q)].req = "retry_status" /\ ~ReportedLinked(q[Len(q)])

C22_Witness ==
    \E t \in Tasks :
        LET q == cl[t].requests IN
        /\ Returned(t) /\ ~cl[t].result.ok /\ Len(cl[t].history) = 3
        /\ q[Len(q)].req = "release"
        /\ ReportedLinked(q[Len(q) - 1])

\* C23: in an attempt the link is requested exactly when the status query
\* answered that the peripheral is not linked; when it answered linked the
\* next request is service discovery; a link request that failed or timed out
\* is followed by no service discovery in that attempt; service discovery
\* comes only after a status query that answered linked or a link request
\* that succeeded.
StatusAnswered(request, is_linked) ==
    request.req = "status" /\ request.answer = "ok" /\ request.linked = is_linked

C23_LinkRequestedIffNotLinked ==
    \A t \in Tasks :
        LET q == cl[t].requests IN
        \A i \in 1..Len(q) :
            /\ q[i].req = "link" => (i > 1 /\ StatusAnswered(q[i - 1], FALSE))
            /\ StatusAnswered(q[i], FALSE) =>
                  IF i < Len(q) THEN q[i + 1].req = "link" ELSE pc[t] = "ctp_link"
            /\ StatusAnswered(q[i], TRUE) =>
                  IF i < Len(q) THEN q[i + 1].req = "discover"
                  ELSE pc[t] = "ctp_discover"
            /\ (q[i].req = "link" /\ q[i].answer # "ok") =>
                  IF i < Len(q) THEN q[i + 1].req = "retry_status"
                  ELSE pc[t] = "retry_status"
            /\ q[i].req = "discover" =>
                  /\ i > 1
                  /\ \/ StatusAnswered(q[i - 1], TRUE)
                     \/ q[i - 1].req = "link" /\ q[i - 1].answer = "ok"

C23_Witness ==
    \E t \in Tasks :
        LET q == cl[t].requests IN
        /\ Len(q) >= 5
        /\ StatusAnswered(q[1], FALSE)
        /\ q[2].req = "link" /\ q[2].answer = "timeout" /\ q[2].linked
        /\ q[3].req = "retry_status"
        /\ StatusAnswered(q[4], TRUE)
        /\ q[5].req = "discover"

C24_SkippedWitness ==
    \E t \in Tasks :
        /\ IsSome(cl[t].selection)
        /\ Unwrap(cl[t].selection).desk_address = Some("D1")
        /\ Unwrap(cl[t].selection).desks = <<"D1", "D5">>
        /\ Unwrap(cl[t].selection).readable = {"D5"}
        /\ cl[t].result = Err("not_found", 0)

\* C25: for every height a preset can hold (any u16 millimetre value) the
\* units written by move_to_height are exactly 10 times the height: the
\* multiplication neither wraps modulo 2^16 nor aborts the call.
C25_UnitsExactForEveryPreset ==
    \A t \in Tasks :
        /\ pc[t] # "panicked"
        /\ \A i \in 1..Len(ml[t].writes) :
              ml[t].writes[i][2] + 256 * ml[t].writes[i][3] = 10 * ml[t].height_mm

\* C26: a scan_for_desks call whose start_scan succeeded and which returns,
\* with a candidate list or with an error of collecting the observed
\* devices, leaves the adapter not scanning.
C26_ScanStoppedOnReturn ==
    \A t \in Tasks :
        (/\ pc[t] = "scan_ret"
         /\ cl[t].result.kind \notin {"adapter", "start_scan", "stop_scan"})
            => ~scanning

\* C27 as stated: a move_to_height call whose height reads all fail returns
\* the read error on its 6th poll, after exactly 6 read attempts.
AllReadsFailed(t) == ml[t].reads > 0 /\ ml[t].consec_fail = ml[t].reads

C27_ReadErrorAfterSixFailedReads ==
    \A t \in Tasks :
        (pc[t] = "move_ret" /\ AllReadsFailed(t)) =>
            /\ ml[t].result.kind = "read"
            /\ ml[t].poll_count = 6
            /\ ml[t].reads = 6

\* C27: once the poll loop of move_to_height has started it ends, provided
\* every read answers: in success, a read error or the timeout error, within
\* 156 iterations.  When all its height reads fail, it makes at most 6 read
\* attempts and returns the read error on the 6th poll after exactly 6 of
\* them, unless an iteration before that began more than 30 whole seconds
\* after the loop started, which returns the timeout error instead.
C27_PollLoopTerminates ==
    /\ [](\A t \in Tasks :
            /\ pc[t] = "m_poll" => ml[t].poll_count < 156
            /\ (pc[t] = "move_ret" /\ ml[t].poll_count > 0) =>
                  ml[t].result.kind \in {"ok", "read", "timeout"}
            /\ AllReadsFailed(t) => ml[t].reads <= 6
            /\ (pc[t] = "move_ret" /\ AllReadsFailed(t)) =>
                  \/ /\ ml[t].result.kind = "read"
                     /\ ml[t].poll_count = 6
                     /\ ml[t].reads = 6
                  \/ /\ ml[t].result.kind = "timeout"
                     /\ ml[t].reads < 6
                     /\ ml[t].elapsed >= (MAX_WAIT_SECS + 1) * 1000)
    /\ \A t \in Tasks :
          (pc[t] = "m_poll") ~> (pc[t] \in {"move_ret", "blocked"})

\* six fast failed reads: the read error after 1 s
C27_Witness ==
    \E t \in Tasks :
        /\ pc[t] = "move_ret"
        /\ ml[t].result.kind = "read"
        /\ ml[t].reads = 6 /\ ml[t].consec_fail = 6
        /\ ml[t].elapsed = 5 * POLL_INTERVAL_MS

\* the loop ended by its timeout on the 156th iteration
C27_TimeoutWitness ==
    \E t \in Tasks :
        /\ pc[t] = "move_ret"
        /\ ml[t].result.kind = "timeout"
        /\ ml[t].poll_count = 156

\* C28: for a target of t mm, move_to_height returns success on a height
\* reading of u units (tenths of a millimetre) exactly when
\* 10 * t - 50 <= u <= 10 * t + 59; a reading of 10 * t + 59 is accepted and a
\* reading of 10 * t - 51 is not.
C28_AcceptedWindow ==
    \A t \in Tasks :
        IsSome(ml[t].last_reading) =>
            LET u == Unwrap(ml[t].last_reading)
                target == ml[t].height_mm
            IN (pc[t] = "move_ret" /\ ml[t].result.ok)
                   <=> (10 * target - 50 <= u /\ u <= 10 * target + 59)

\* a reading 5.9 mm above the target ended the move in success
C28_Witness ==
    \E t \in Tasks :
        /\ pc[t] = "move_ret" /\ ml[t].result.ok
        /\ ml[t].height_mm = 1050
        /\ ml[t].last_reading = Some(10559)

\* a reading 5.1 mm below the target did not end the move
C28_BelowWitness ==
    \E t \in Tasks :
        /\ pc[t] = "m_poll"
        /\ ml[t].height_mm = 1050
        /\ ml[t].last_reading = Some(10449)

\* C29: when scan_and_configure_desk stores its new session and returns
\* success, the link of the stored session's device, active before the store,
\* is still active after it, also when the session the store replaces was a
\* session to the same device.
C29_StoredSessionKeepsLink ==
    [][\A t \in Tasks :
         (/\ pc[t] = "connect_ret" /\ op[t] = "scan_and_configure_desk"
          /\ pc'[t] = "done" /\ ret'[t].ok
          /\ slot' = cl[t].controller /\ IsSome(slot')
          /\ linked[Unwrap(slot').peripheral])
             => linked'[Unwrap(slot').peripheral]]_vars

\* C30: the slot, once it holds a session, never becomes empty; the session
\* in it changes only when connect has returned to ensure_connected on an
\* empty slot or to scan_and_configure_desk, so a failed move_to_height or
\* get_height leaves it as it was; and a move_to_preset that finds a session
\* in the slot goes on to the move without starting a scan or a connect.
C30_SlotMonotonic ==
    [][/\ IsSome(slot) => IsSome(slot')
       /\ slot' # slot =>
             \E t \in Tasks :
                 /\ pc[t] = "connect_ret" /\ pc'[t] # "connect_ret"
                 /\ (op[t] = "scan_and_configure_desk" \/ slot = None)
       /\ \A t \in Tasks :
             /\ (pc[t] \in {"move_ret", "gch_read", "m_write", "m_poll"}
                 /\ pc'[t] # pc[t]) => slot' = slot
             /\ (op[t] = "move_to_preset" /\ pc[t] = "ec_lock"
                 /\ pc'[t] # "ec_lock" /\ IsSome(slot)) =>
                    pc'[t] = "mtp_cfg_lock"
             /\ (op[t] = "move_to_preset" /\ pc[t] # "scan_start"
                 /\ pc'[t] = "scan_start") => slot = None]_vars

\* one move has failed, the session is still in the slot and a later
\* move_to_preset has passed ensure_connected with it
C30_Witness ==
    \E t, u \in Tasks :
        /\ op[t] = "move_to_preset" /\ pc[t] = "done"
        /\ ret[t].kind \in {"timeout", "read", "write"}
        /\ IsSome(slot)
        /\ op[u] = "move_to_preset" /\ pc[u] = "mtp_cfg_lock"

\* C31: a move_to_preset task is between ensure_connected's check of the slot
\* and the end of its connect only while it holds the slot's lock, so at most
\* one such task is there at a time; it stores a session only into an empty
\* slot; and a move_to_preset task that gets the lock with the slot filled
\* goes on without scanning or connecting.
ConnectingPcs ==
    {"ec_cfg_lock", "ec_cfg_read", "scan_start", "scan_collect", "scan_ret",
     "connect_settle", "ctp_status", "ctp_link", "ctp_discover",
     "retry_status", "retry_release", "connect_ret"}

InEnsureConnected(t) == op[t] = "move_to_preset" /\ pc[t] \in ConnectingPcs

C31_OneConnectForConcurrentMoves ==
    /\ [](\A t, u \in Tasks :
            /\ InEnsureConnected(t) => (slotLock = Some(t) /\ slot = None)
            /\ (InEnsureConnected(t) /\ InEnsureConnected(u)) => t = u)
    /\ [][\A t \in Tasks :
            /\ (op[t] = "move_to_preset" /\ pc[t] = "connect_ret"
                /\ pc'[t] # "connect_ret" /\ cl[t].result.ok) =>
                   (slot = None /\ slot' = cl[t].controller)
            /\ (op[t] = "move_to_preset" /\ pc[t] = "ec_lock"
                /\ pc'[t] # "ec_lock" /\ IsSome(slot)) =>
                   (pc'[t] = "mtp_cfg_lock" /\ slot' = slot
                    /\ scanning' = scanning /\ linked' = linked)]_vars

\* one request's connect has succeeded and is about to be stored while a
\* second request waits for the slot's lock
C31_Witness ==
    \E t, u \in Tasks :
        /\ op[t] = "move_to_preset" /\ pc[t] = "connect_ret" /\ cl[t].result.ok
        /\ op[u] = "move_to_preset" /\ pc[u] = "ec_lock"
        /\ slot = None

\* the second request has gone on with the session the first one stored
C31_ReusedWitness ==
    \E t, u \in Tasks :
        /\ op[t] = "move_to_preset" /\ pc[t] \in {"m_write", "m_poll"}
        /\ op[u] = "move_to_preset" /\ pc[u] = "mtp_lock"

\* C32: the two application locks cannot deadlock.  The task holding the
\* config lock is never waiting for anything: it is at the statement that
\* reads or writes the configuration and drops the guard.  A task holding the
\* slot's lock is inside its operation (connecting, moving, reading, or held
\* by a transport call that never answers), and the only lock it may wait for
\* is the config lock.  So there is no circular wait, and whenever a lock is
\* free every task waiting for it can take it.
WaitsForSlot(t) ==
    \/ pc[t] \in {"ec_lock", "mtp_lock", "gch_lock"}
    \/ pc[t] = "connect_ret" /\ op[t] = "scan_and_configure_desk" /\ cl[t].result.ok

WaitsForConfig(t) == pc[t] \in {"ec_cfg_lock", "mtp_cfg_lock", "cfg_cfg_lock"}

HoldsConfig(t) == pc[t] \in {"ec_cfg_read", "mtp_cfg_read", "cfg_cfg_save"}

AcquireSlot(t) ==
    \/ ensure_connected_lock(t)
    \/ move_to_preset_lock(t)
    \/ get_current_height_lock(t)
    \/ configure_store(t)

AcquireConfig(t) ==
    \/ ensure_connected_config_lock(t)
    \/ move_to_preset_config_lock(t)
    \/ configure_config_lock(t)

C32_LocksDoNotDeadlock ==
    \A t \in Tasks :
        /\ configLock = Some(t) <=> HoldsConfig(t)
        /\ configLock = Some(t) => ~WaitsForSlot(t) /\ ~WaitsForConfig(t)
        /\ slotLock = Some(t) =>
              /\ ~WaitsForSlot(t)
              /\ \/ InEnsureConnected(t)
                 \/ pc[t] \in {"m_write", "m_poll", "move_ret", "gch_read", "blocked"}
        /\ ~(\E u \in Tasks :
               /\ slotLock = Some(t) /\ WaitsForConfig(t)
               /\ configLock = Some(u) /\ WaitsForSlot(u))
        /\ (WaitsForSlot(t) /\ slotLock = None) => ENABLED AcquireSlot(t)
        /\ (WaitsForConfig(t) /\ configLock = None) => ENABLED AcquireConfig(t)

\* one task holds the slot's lock and waits for the config lock, which the
\* other task holds
C32_Witness ==
    \E t, u \in Tasks :
        /\ slotLock = Some(t) /\ pc[t] = "ec_cfg_lock"
        /\ configLock = Some(u) /\ pc[u] = "cfg_cfg_save"

\* C33: with no desk address configured, ensure_connected ends move_to_preset
\* with the "no desk configured" error, starts no scan and no connect, touches
\* no link and leaves the slot empty; get_current_height on an empty slot
\* returns no value in one step that starts no scan, no connect and no
\* transport call.
C33_NoAddressNoSlotNoIo ==
    /\ [](\A t \in Tasks :
            (op[t] = "move_to_preset" /\ cl[t].in_connect) =>
                IsSome(cl[t].desk_address))
    /\ [][\A t \in Tasks :
            /\ (pc[t] = "ec_cfg_read" /\ pc'[t] # "ec_cfg_read"
                /\ config.desk_address = None) =>
                   /\ pc'[t] = "done"
                   /\ ret'[t] = Err("no_desk_configured", 0)
                   /\ slot = None /\ slot' = None
                   /\ UNCHANGED <<linked, scanning, cl, config>>
            /\ (pc[t] = "gch_lock" /\ pc'[t] # "gch_lock" /\ slot = None) =>
                   /\ pc'[t] = "done"
                   /\ ret'[t] = Err("none", 0)
                   /\ UNCHANGED <<linked, scanning, cl, ml, slot, slotLock, config>>]_vars

\* move_to_preset has failed for want of an address, the slot still empty
C33_Witness ==
    \E t \in Tasks :
        /\ op[t] = "move_to_preset" /\ pc[t] = "done"
        /\ ret[t] = Err("no_desk_configured", 0)
        /\ config.desk_address = None
        /\ slot = None /\ ~scanning

\* get_current_height has returned no value from an empty slot
C33_NoValueWitness ==
    \E t \in Tasks :
        /\ op[t] = "get_current_height" /\ pc[t] = "done"
        /\ ret[t] = Err("none", 0)
        /\ slot = None

\* C34: scan_and_configure_desk writes the discovered address into the
\* configuration before its connect starts, so all through that connect the
\* configuration holds the address being connected to; when the connect
\* fails the call returns connect's error, the configuration keeps the
\* address and the slot and its lock are as they were.
C34_AddressSavedBeforeConnect ==
    /\ [](\A t \in Tasks :
            (op[t] = "scan_and_configure_desk" /\ cl[t].in_connect) =>
                (IsSome(cl[t].desk_address)
                 /\ config.desk_address = cl[t].desk_address))
    /\ [][\A t \in Tasks :
            /\ (pc[t] = "cfg_cfg_save" /\ pc'[t] # "cfg_cfg_save") =>
                   config'.desk_address = cl[t].desk_address
            /\ (op[t] = "scan_and_configure_desk" /\ pc[t] = "connect_ret"
                /\ pc'[t] # "connect_ret" /\ ~cl[t].result.ok) =>
                   /\ pc'[t] = "done"
                   /\ ret'[t] = cl[t].result
                   /\ IsSome(config.desk_address)
                   /\ UNCHANGED <<config, slot, slotLock>>]_vars

\* the connect of scan_and_configure_desk has failed after three attempts,
\* the discovered address is in the configuration and the slot is empty
C34_Witness ==
    \E t \in Tasks :
        /\ op[t] = "scan_and_configure_desk" /\ pc[t] = "done"
        /\ ret[t] = Err("link", 3)
        /\ config.desk_address = Some("D1")
        /\ slot = None

\* C35: the height read of get_current_height is made only by a task that
\* holds the slot's lock, and at no time while another task is in
\* move_to_height (from before its write until it has returned, or held in
\* it by a transport call that never answers).
MoveInProgress(u) ==
    \/ pc[u] \in {"m_write", "m_poll", "move_ret"}
    \/ pc[u] = "blocked" /\ op[u] = "move_to_preset" /\ slotLock = Some(u)

C35_DisplayReadOutsideMoves ==
    /\ [](\A t \in Tasks :
            pc[t] = "gch_read" =>
                /\ slotLock = Some(t)
                /\ \A u \in Tasks : ~MoveInProgress(u))
    /\ [][\A t \in Tasks :
            (pc[t] = "gch_read" /\ pc'[t] # "gch_read") =>
                \A u \in Tasks : ~MoveInProgress(u) /\ ~MoveInProgress(u)']_vars

\* a display read waits for the slot's lock while a move is polling
C35_Witness ==
    \E t, u \in Tasks :
        /\ op[t] = "get_current_height" /\ pc[t] = "gch_lock"
        /\ op[u] = "move_to_preset" /\ pc[u] = "m_poll" /\ ml[u].poll_count >= 2
        /\ slotLock = Some(u)

====
